---- MODULE Spec2Model ----
(***************************************************************************)
(* ExMail background service worker (src/unnamed/part_000) and Gmail API   *)
(* client (src/api/gmail.js).                                              *)
(*                                                                         *)
(* Every handler is an async function.  It is modelled as a process whose  *)
(* steps are the synchronous blocks between two awaits; pc[p] names the    *)
(* await the invocation p is suspended at.  Spec runs the handlers one at  *)
(* a time (an invocation starts only when no other one is suspended);      *)
(* SpecAsync lets them interleave at every await.                          *)
(***************************************************************************)
EXTENDS Integers, Sequences, FiniteSets, TLC

\* ---- bounds ----
MaxMsgId == 3          \* message ids are 1..MaxMsgId
MaxNotified == 2       \* the history counts up to MaxNotified notifications of a message
MaxStrLen == 3         \* strings handed to the functions of utils.js have at most MaxStrLen code units
PollMaxResults == 2    \* page size of the poller's list call (maxResults: 10 in the source, scaled down)
BridgeMaxResults == 3  \* page size of a bridge listMessages request (20 in the popup, scaled down)

\* ---- program constants ----
DEFAULT_REFRESH_INTERVAL == 5

REFRESH_ALARM_NAME == "exmail-refresh"
NOTIFICATION_ID_PREFIX == "exmail-new-"
AUTH_REQUIRED == "No access token available. Please sign in."
AUTH_EXPIRED == "AUTH_EXPIRED"

MsgIds == 1..MaxMsgId
NoToken == "null"
Token == "token"
Unset == "unset"
NoAlarm == 0

\* ---- invocations ----
InitProcs == {"load", "installed", "startup"}   \* the three initialize() calls
Cycles == {"alarm", "refresh"}                  \* checkForNewEmails from onAlarm / from the refreshEmails action
Procs == InitProcs \cup Cycles \cup {"signOut", "saveSettings", "client"}

VARIABLES
  accessToken,          \* gmailAPI.accessToken
  lastKnownMessageIds,  \* the last-seen-ID set
  lastFetched,          \* history: the ids the latest cycle of this process fetched, if any did
  isInitialized,
  alarm,                \* chrome.alarms: period of the alarm named REFRESH_ALARM_NAME, NoAlarm when there is none
  storage,              \* chrome.storage.local
  mailbox,              \* provider side: the ids of the unread INBOX messages
  pc,                   \* per invocation: the await it is suspended at
  cyc,                  \* locals and history of each poll cycle
  lm,                   \* state of the listMessages call of each caller
  ini,                  \* locals of each initialize() call
  so,                   \* locals of signOut
  sv,                   \* argument of the running saveSettings request
  cl,                   \* the running client operation of the bridge
  http,                 \* per invocation: the HTTP requests it has issued
  resp,                 \* per invocation: the bridge response, or what its caller saw
  notified,             \* history, per message id: the notifications raised for it in this
                        \* process lifetime since it became unread (kept under SpecPoll)
  call                  \* the call of a function of src/api/utils.js under evaluation

vars == <<accessToken, lastKnownMessageIds, lastFetched, isInitialized, alarm, storage, mailbox, pc, cyc, lm, ini, so, sv, cl, http, resp, notified, call>>

\* the variables of the background process and its client
workerVars == <<accessToken, lastKnownMessageIds, lastFetched, isInitialized, alarm, storage, mailbox, pc, cyc, lm, ini, so, sv, cl, http, resp>>

\* ---------------------------------------------------------------------------
\* helpers
\* ---------------------------------------------------------------------------
Range(s) == {s[i] : i \in 1..Len(s)}

Min(a, b) == IF a < b THEN a ELSE b

Idle(p) == pc[p] \in {"idle", "done"}

\* no invocation is suspended at an await
Quiescent == \A p \in Procs : Idle(p)

\* what the caller of an invocation gets back: sendResponse(...) for a bridge request
Answer(kind, msg) == [kind |-> kind, msg |-> msg]

\* variant: the error leaves the listener instead of being answered
Thrown(e) == Answer("unhandled", e)

\* .catch(error => sendResponse({ error: error.message })) of the onMessage listener
Caught(e) == Answer("error", e)

NoAnswer == Answer("none", "")

\* no function of utils.js is under evaluation
NoCall == [fn |-> "none"]

\* a step of the background process: no history is kept and no utility call is looked at
Unobserved == UNCHANGED <<notified, call>>

Pending == Answer("pending", "")

\* ---------------------------------------------------------------------------
\* GmailAPI.request (src/api/gmail.js)
\* ---------------------------------------------------------------------------
Statuses == {200, 401, 403}

\* the statuses the bridge's operations are answered with
ClientStatuses == Statuses \cup {500}

\* an error body: unparsable (or empty) text, JSON without error.message, JSON with one
\* (message "": no error.message).  error.message is whatever text the server sent:
\* a sentence of its own, or the very text the client uses as its sentinel.
Bodies == {[parsable |-> FALSE, message |-> ""],
           [parsable |-> TRUE, message |-> ""],
           [parsable |-> TRUE, message |-> "Quota exceeded"],
           [parsable |-> TRUE, message |-> AUTH_EXPIRED]}

NoBody == [parsable |-> FALSE, message |-> ""]

ApiErrorText(status) ==
  CASE status = 401 -> "API Error: 401"
    [] status = 403 -> "API Error: 403"
    [] status = 500 -> "API Error: 500"
    [] OTHER -> "API Error: other"

\* variant: request() never throws for a missing token
HasTokenAlways == TRUE

\* if (!this.accessToken) throw ...
HasToken == accessToken # NoToken

\* response.ok
ResponseOk(status) == status \in 200..299

\* response.json().catch(() => ({})) followed by error.error?.message
BodyMessage(body) == IF body.parsable THEN body.message ELSE ""

\* variant: the body of the response is not looked at
ResponseErrorGeneric(status, body) ==
  IF status = 401 THEN AUTH_EXPIRED ELSE ApiErrorText(status)

\* the message of the Error thrown for a response that is not ok
ResponseError(status, body) ==
  IF status = 401 THEN AUTH_EXPIRED
  ELSE IF BodyMessage(body) # "" THEN BodyMessage(body)
  ELSE ApiErrorText(status)

\* fetch(url, ...) of one request
Req(ep, id) == [ep |-> ep, id |-> id]

\* ids: response.messages of the list call; det: the state of each detail fetch;
\* out: the array Promise.all fills, 0 where no value has arrived
NoLm == [state |-> "none", ids |-> <<>>, det |-> <<>>, out |-> <<>>, err |-> "", status |-> 0]

NoFetch == [any |-> FALSE, ids |-> {}]

\* startSeen, prev, token, fetched, raised record what the cycle met and did
NoCycle == [startSeen |-> {}, prev |-> NoFetch, token |-> "pending", fetched |-> FALSE,
            messages |-> <<>>, idx |-> 0, raised |-> <<>>, outcome |-> "none",
            err |-> "", propagated |-> FALSE]

\* what a bridge request carries besides the message id
NoArgs == [isStarred |-> FALSE, threadId |-> ""]

\* what a request to the provider carries: the headers of the MIME message and the
\* threadId of a send request, the label lists of a modify request ("": not there)
NoPayload == [to |-> "", threadId |-> "", inReplyTo |-> "", references |-> <<>>,
              addLabelIds |-> <<>>, removeLabelIds |-> <<>>]

\* prev401: the operation the bridge ran just before this one ended on a 401;
\* order: the detail fetches of listMessages in the order their responses arrived;
\* payload: what the latest request of the operation carries
NoClient == [op |-> "none", id |-> 0, args |-> NoArgs, stage |-> 0, status |-> 0,
             body |-> NoBody, payload |-> NoPayload, prev401 |-> FALSE, order |-> <<>>]

NoSignOut == [token |-> NoToken, revoked |-> FALSE]

NoData == [refreshInterval |-> 0, notificationsEnabled |-> Unset]

\* The locals of an invocation that has returned are gone: its record is kept until
\* the next invocation of any handler begins, and dropped then.
Kept(f, fresh) == [p \in DOMAIN f |-> IF Idle(p) THEN fresh ELSE f[p]]

KeptPc == [p \in Procs |-> IF pc[p] = "done" /\ p \notin InitProcs THEN "idle" ELSE pc[p]]

KeptSo == IF Idle("signOut") THEN NoSignOut ELSE so

KeptSv == IF Idle("saveSettings") THEN NoData ELSE sv

KeptCl == IF Idle("client") THEN NoClient ELSE cl

\* a handler other than q begins: what becomes of the records q does not own
OthersForgotten(q) ==
  /\ q \notin Cycles => cyc' = Kept(cyc, NoCycle)
  /\ q \notin Cycles \cup {"client"} => lm' = Kept(lm, NoLm)
  /\ q \notin InitProcs => ini' = Kept(ini, 0)
  /\ q # "signOut" => so' = KeptSo
  /\ q # "saveSettings" => sv' = KeptSv
  /\ q # "client" => cl' = KeptCl

\* ---------------------------------------------------------------------------
\* the provider and the platform (collaborators)
\* ---------------------------------------------------------------------------
\* the ids of set S, newest (highest id) first
RECURSIVE Newest(_)
Newest(S) ==
  IF S = {} THEN <<>>
  ELSE LET m == CHOOSE x \in S : \A y \in S : y <= x IN <<m>> \o Newest(S \ {m})

\* messages.list with labelIds=INBOX, q=is:unread, maxResults=n
ProviderList(n) == SubSeq(Newest(mailbox), 1, Min(n, Cardinality(mailbox)))

\* a new unread message reaches the inbox
Arrive(m) ==
  /\ m \notin mailbox
  /\ mailbox' = mailbox \cup {m}
  /\ UNCHANGED <<accessToken, lastKnownMessageIds, lastFetched, isInitialized, alarm, storage,
                 pc, cyc, lm, ini, so, sv, cl, http, resp>>

\* an unread message is read, archived or deleted elsewhere
Gone(m) ==
  /\ m \in mailbox
  /\ mailbox' = mailbox \ {m}
  /\ UNCHANGED <<accessToken, lastKnownMessageIds, lastFetched, isInitialized, alarm, storage,
                 pc, cyc, lm, ini, so, sv, cl, http, resp>>

\* ---------------------------------------------------------------------------
\* checkForNewEmails (src/unnamed/part_000)
\* ---------------------------------------------------------------------------
\* variant: the id of a notification is the prefix alone
NotificationIdPrefixOnly(id) == <<NOTIFICATION_ID_PREFIX, 0>>

\* `${NOTIFICATION_ID_PREFIX}${message.id}`
NotificationId(id) == <<NOTIFICATION_ID_PREFIX, id>>

\* chrome.notifications.create(notificationId, ...) on the live notifications:
\* a notification with that id is replaced, any other one stays
NotificationsCreate(live, nid, m) ==
  {n \in live : n.id # nid} \cup {[id |-> nid, message |-> m]}

\* the live notifications after showNotification has run for the messages of calls, in order
RECURSIVE Shown(_)
Shown(calls) ==
  IF calls = <<>> THEN {}
  ELSE LET m == calls[Len(calls)]
       IN NotificationsCreate(Shown(SubSeq(calls, 1, Len(calls) - 1)), NotificationId(m), m)

\* variant: the loop notifies every fetched message, seen or not
NextNewUnfiltered(msgs, from, seen) == IF from <= Len(msgs) THEN from ELSE 0

\* the first index >= from of a message that is not in seen, 0 when there is none
NextNew(msgs, from, seen) ==
  LET new == {j \in from..Len(msgs) : msgs[j] \notin seen}
  IN IF new = {} THEN 0 ELSE CHOOSE j \in new : \A k \in new : j <= k

\* variant: the loop of lines 145-150 runs on an empty last-seen set too
HasBaselineAlways == TRUE

\* lastKnownMessageIds.size > 0
HasBaseline == Cardinality(lastKnownMessageIds) > 0

\* variant: the fetched ids are added to the last-seen set
CurrentIdsAccumulated(msgs) == lastKnownMessageIds \cup Range(msgs)

\* new Set(messages.map(m => m.id))
CurrentIds(msgs) == Range(msgs)

\* variant: the cycle goes on without a token
TokenMissingNever(tok) == FALSE

\* if (!token) return
TokenMissing(tok) == tok = NoToken

\* variant: a setting that was never stored counts as disabled
NotificationsDisabledUnlessTrue == storage.notificationsEnabled # "true"

\* if (settings.notificationsEnabled === false) return
NotificationsDisabled == storage.notificationsEnabled = "false"

\* variant: the catch block rethrows
CycleRethrown(rec, e) == [rec EXCEPT !.outcome = "error", !.err = e, !.propagated = TRUE]

\* catch (error) { console.error(...) } of checkForNewEmails
CycleCaught(rec, e) == [rec EXCEPT !.outcome = "error", !.err = e, !.propagated = FALSE]

\* what the caller of checkForNewEmails does when the cycle has settled:
\* handleMessage answers { success: true } (or the listener's catch answers the error),
\* onAlarm ignores the promise
CallerSees(c, rec) ==
  IF c = "refresh"
  THEN IF rec.propagated THEN Caught(rec.err) ELSE Answer("success", "")
  ELSE IF rec.propagated THEN Answer("unhandled", rec.err) ELSE Answer("ignored", "")

CycleFinish(c, rec) ==
  /\ cyc' = [cyc EXCEPT ![c] = rec]
  /\ pc' = [pc EXCEPT ![c] = "done"]
  /\ resp' = [resp EXCEPT ![c] = CallerSees(c, rec)]

\* the for loop of lines 145-150 from index `from` up to its next await,
\* then line 153 when the loop is over
CycleLoop(c, rec, from) ==
  LET j == NextNew(rec.messages, from, lastKnownMessageIds) IN
  IF j # 0
  THEN /\ cyc' = [cyc EXCEPT ![c] = [rec EXCEPT !.idx = j,
                                               !.raised = Append(@, rec.messages[j])]]
       /\ pc' = [pc EXCEPT ![c] = "notify"]
       /\ UNCHANGED <<lastKnownMessageIds, resp>>
  ELSE /\ lastKnownMessageIds' = CurrentIds(rec.messages)
       /\ CycleFinish(c, [rec EXCEPT !.outcome = "completed"])

\* lines 141-153, entered when listMessages has settled as r
CycleAfterList(c, r) ==
  IF r.state = "rejected"
  THEN /\ CycleFinish(c, CycleCaught(cyc[c], r.err))
       /\ UNCHANGED <<lastKnownMessageIds, lastFetched>>
  ELSE LET rec == [cyc[c] EXCEPT !.fetched = TRUE, !.messages = r.out] IN
       /\ lastFetched' = [any |-> TRUE, ids |-> Range(r.out)]
       /\ IF HasBaseline
          THEN CycleLoop(c, rec, 1)
          ELSE /\ lastKnownMessageIds' = CurrentIds(rec.messages)
               /\ CycleFinish(c, [rec EXCEPT !.outcome = "completed"])

\* checkForNewEmails() is called: authenticateSilently asks the platform for a token
CycleBegin(c) ==
  /\ Idle(c)
  /\ pc' = [KeptPc EXCEPT ![c] = "auth"]
  /\ cyc' = [Kept(cyc, NoCycle) EXCEPT ![c] = [NoCycle EXCEPT !.startSeen = lastKnownMessageIds,
                                                              !.prev = lastFetched]]
  /\ lm' = Kept(lm, NoLm)
  /\ http' = Kept(http, <<>>)
  /\ resp' = [Kept(resp, NoAnswer) EXCEPT ![c] = Pending]
  /\ OthersForgotten(c)
  /\ UNCHANGED <<accessToken, lastKnownMessageIds, lastFetched, isInitialized, alarm, storage,
                 mailbox>>

\* chrome.alarms.onAlarm
AlarmFires ==
  /\ alarm # NoAlarm
  /\ CycleBegin("alarm")

\* the refreshEmails action of the bridge
RefreshEmails == CycleBegin("refresh")

\* authenticateSilently settles with tok (NoToken: no token or chrome.runtime.lastError)
CycleAuth(c, tok) ==
  /\ pc[c] = "auth"
  /\ accessToken' = IF tok # NoToken THEN tok ELSE accessToken
  /\ IF TokenMissing(tok)
     THEN CycleFinish(c, [cyc[c] EXCEPT !.token = tok, !.outcome = "noToken"])
     ELSE /\ cyc' = [cyc EXCEPT ![c].token = tok]
          /\ pc' = [pc EXCEPT ![c] = "settings"]
          /\ UNCHANGED resp
  /\ UNCHANGED <<lastKnownMessageIds, lastFetched, isInitialized, alarm, storage, mailbox,
                 lm, ini, so, sv, cl, http>>

\* chrome.storage.local.get(['notificationsEnabled']) settles; listMessages is called
CycleSettings(c) ==
  /\ pc[c] = "settings"
  /\ IF NotificationsDisabled
     THEN /\ CycleFinish(c, [cyc[c] EXCEPT !.outcome = "disabled"])
          /\ UNCHANGED <<lm, http>>
     ELSE IF ~HasToken
     THEN /\ CycleFinish(c, CycleCaught(cyc[c], AUTH_REQUIRED))
          /\ lm' = [lm EXCEPT ![c] = [NoLm EXCEPT !.state = "rejected", !.err = AUTH_REQUIRED]]
          /\ UNCHANGED http
     ELSE /\ http' = [http EXCEPT ![c] = Append(@, Req("list", 0))]
          /\ lm' = [lm EXCEPT ![c] = [NoLm EXCEPT !.state = "list"]]
          /\ pc' = [pc EXCEPT ![c] = "list"]
          /\ UNCHANGED <<cyc, resp>>
  /\ UNCHANGED <<accessToken, lastKnownMessageIds, lastFetched, isInitialized, alarm, storage,
                 mailbox, ini, so, sv, cl>>

\* showNotification(message) settles: the notification exists, or create rejected
CycleNotified(c, ok) ==
  /\ pc[c] = "notify"
  /\ IF ok
     THEN CycleLoop(c, cyc[c], cyc[c].idx + 1)
     ELSE /\ CycleFinish(c, CycleCaught(cyc[c], "notification failed"))
          /\ UNCHANGED lastKnownMessageIds
  /\ UNCHANGED <<accessToken, lastFetched, isInitialized, alarm, storage, mailbox,
                 lm, ini, so, sv, cl, http>>

\* ---------------------------------------------------------------------------
\* GmailAPI.listMessages (src/api/gmail.js), for the poller and for the bridge
\* ---------------------------------------------------------------------------
LmCallers == Cycles \cup {"client"}

MaxResultsOf(p) == IF p \in Cycles THEN PollMaxResults ELSE BridgeMaxResults

\* the bridge answers a listMessages request when the call has settled
ClientAfterList(r) ==
  /\ pc' = [pc EXCEPT !["client"] = "done"]
  /\ resp' = [resp EXCEPT !["client"] =
                IF r.state = "rejected" THEN Caught(r.err) ELSE Answer("success", "")]

AfterList(p, r) ==
  IF p \in Cycles
  THEN CycleAfterList(p, r)
  ELSE ClientAfterList(r) /\ UNCHANGED <<cyc, lastKnownMessageIds, lastFetched>>

\* the state of the call once the list response is in: lines 114-120.
\* getMessage is called for every listed id; each call throws in request() when
\* there is no token, and Promise.all of no promise resolves at once
ListSettled(status, body, ids) ==
  IF ~ResponseOk(status)
  THEN [NoLm EXCEPT !.state = "rejected", !.err = ResponseError(status, body), !.status = status]
  ELSE IF ids = <<>> THEN [NoLm EXCEPT !.state = "resolved", !.status = status]
  ELSE IF ~HasToken
  THEN [NoLm EXCEPT !.state = "rejected", !.err = AUTH_REQUIRED, !.status = status]
  ELSE [state |-> "details", ids |-> ids,
        det |-> [i \in 1..Len(ids) |-> "pending"],
        out |-> [i \in 1..Len(ids) |-> 0], err |-> "", status |-> status]

\* variant: the detail fetches are made one after the other
DetailRequestsFirst(ids) == <<Req("get", ids[1])>>

DetailRequests(ids) == [i \in 1..Len(ids) |-> Req("get", ids[i])]

\* the response of the list request arrives
ListResponse(p, status, body) ==
  /\ pc[p] = "list"
  /\ LET r == ListSettled(status, body, ProviderList(MaxResultsOf(p))) IN
     /\ lm' = [lm EXCEPT ![p] = r]
     /\ IF r.state = "details"
        THEN /\ http' = [http EXCEPT ![p] = @ \o DetailRequests(r.ids)]
             /\ pc' = [pc EXCEPT ![p] = "details"]
             /\ UNCHANGED <<cyc, resp, lastKnownMessageIds, lastFetched>>
        ELSE /\ AfterList(p, r)
             /\ UNCHANGED http
  /\ UNCHANGED <<accessToken, isInitialized, alarm, storage, mailbox, ini, so, sv, cl>>

\* how many detail fetches of r have delivered a message
Delivered(r) == Cardinality({k \in DOMAIN r.det : r.det[k] = "ok"})

\* variant: a failed fetch is left out and the call resolves with the others
DetailSettledPartial(r, i, status, body) ==
  LET ok == ResponseOk(status)
      det == [r.det EXCEPT ![i] = IF ok THEN "ok" ELSE "fail"]
      out == [r.out EXCEPT ![i] = IF ok THEN r.ids[i] ELSE @]
  IN IF \A k \in DOMAIN det : det[k] # "pending"
     THEN [r EXCEPT !.det = det, !.out = out, !.state = "resolved", !.status = status]
     ELSE [r EXCEPT !.det = det, !.out = out, !.status = status]

\* variant: the messages are collected in the order their fetches complete
DetailSettledInArrivalOrder(r, i, status, body) ==
  LET ok == ResponseOk(status)
      det == [r.det EXCEPT ![i] = IF ok THEN "ok" ELSE "fail"]
      out == [r.out EXCEPT ![Delivered(r) + 1] = IF ok THEN r.ids[i] ELSE @]
  IN IF ~ok
     THEN [r EXCEPT !.det = det, !.state = "rejected",
                    !.err = ResponseError(status, body), !.status = status]
     ELSE IF \A k \in DOMAIN det : det[k] = "ok"
     THEN [r EXCEPT !.det = det, !.out = out, !.state = "resolved", !.status = status]
     ELSE [r EXCEPT !.det = det, !.out = out, !.status = status]

\* Promise.all over the detail fetches after fetch i has settled as ok / not ok:
\* it rejects with the first failure and resolves, with the message of fetch k at
\* index k, when every fetch has succeeded
DetailSettled(r, i, status, body) ==
  LET ok == ResponseOk(status)
      det == [r.det EXCEPT ![i] = IF ok THEN "ok" ELSE "fail"]
      out == [r.out EXCEPT ![i] = IF ok THEN r.ids[i] ELSE @]
  IN IF ~ok
     THEN [r EXCEPT !.det = det, !.state = "rejected",
                    !.err = ResponseError(status, body), !.status = status]
     ELSE IF \A k \in DOMAIN det : det[k] = "ok"
     THEN [r EXCEPT !.det = det, !.out = out, !.state = "resolved", !.status = status]
     ELSE [r EXCEPT !.det = det, !.out = out, !.status = status]

\* the response of detail fetch i arrives
DetailResponse(p, i, status, body) ==
  /\ pc[p] = "details"
  /\ i \in DOMAIN lm[p].det
  /\ lm[p].det[i] = "pending"
  /\ LET r == DetailSettled(lm[p], i, status, body) IN
     /\ lm' = [lm EXCEPT ![p] = r]
     /\ IF r.state # "details"
        THEN AfterList(p, r)
        ELSE UNCHANGED <<pc, cyc, resp, lastKnownMessageIds, lastFetched>>
  /\ cl' = IF p = "client" THEN [cl EXCEPT !.order = Append(@, i)] ELSE cl
  /\ UNCHANGED <<accessToken, isInitialized, alarm, storage, mailbox, ini, so, sv, http>>

\* ---------------------------------------------------------------------------
\* initialize / setupRefreshAlarm (src/unnamed/part_000)
\* ---------------------------------------------------------------------------
Intervals == {30}

\* the minutes the popup's refresh-interval select offers (README: 1-30 minutes)
SelectIntervals == {1, 15, 30}

\* variant: the stored interval is not looked at
StoredIntervalDefault == DEFAULT_REFRESH_INTERVAL

\* settings.refreshInterval || DEFAULT_REFRESH_INTERVAL (0: nothing stored)
StoredInterval == IF storage.refreshInterval # 0 THEN storage.refreshInterval
                  ELSE DEFAULT_REFRESH_INTERVAL

\* onInstalled / onStartup call initialize(): line 21, then storage.get is awaited
InitializeEvent(p) ==
  /\ p \in {"installed", "startup"}
  /\ pc[p] = "idle"
  /\ pc' = [KeptPc EXCEPT ![p] = IF isInitialized THEN "done" ELSE "settings"]
  /\ ini' = Kept(ini, 0)
  /\ http' = Kept(http, <<>>)
  /\ resp' = Kept(resp, NoAnswer)
  /\ OthersForgotten(p)
  /\ UNCHANGED <<accessToken, lastKnownMessageIds, lastFetched, isInitialized, alarm, storage, mailbox>>

\* storage.get settles; setupRefreshAlarm calls chrome.alarms.clear
InitializeSettings(p) ==
  /\ p \in InitProcs
  /\ pc[p] = "settings"
  /\ ini' = [ini EXCEPT ![p] = StoredInterval]
  /\ pc' = [pc EXCEPT ![p] = "clear"]
  /\ UNCHANGED <<accessToken, lastKnownMessageIds, lastFetched, isInitialized, alarm, storage, mailbox,
                 cyc, lm, so, sv, cl, http, resp>>

\* chrome.alarms.clear settles; chrome.alarms.create is called
InitializeCleared(p) ==
  /\ p \in InitProcs
  /\ pc[p] = "clear"
  /\ alarm' = NoAlarm
  /\ pc' = [pc EXCEPT ![p] = "create"]
  /\ UNCHANGED <<accessToken, lastKnownMessageIds, lastFetched, isInitialized, storage, mailbox,
                 cyc, lm, ini, so, sv, cl, http, resp>>

\* chrome.alarms.create settles; authenticateSilently is called
InitializeCreated(p) ==
  /\ p \in InitProcs
  /\ pc[p] = "create"
  /\ alarm' = ini[p]
  /\ pc' = [pc EXCEPT ![p] = "auth"]
  /\ UNCHANGED <<accessToken, lastKnownMessageIds, lastFetched, isInitialized, storage, mailbox,
                 cyc, lm, ini, so, sv, cl, http, resp>>

\* authenticateSilently settles; isInitialized = true
InitializeAuth(p, tok) ==
  /\ p \in InitProcs
  /\ pc[p] = "auth"
  /\ accessToken' = IF tok # NoToken THEN tok ELSE accessToken
  /\ isInitialized' = TRUE
  /\ pc' = [pc EXCEPT ![p] = "done"]
  /\ UNCHANGED <<lastKnownMessageIds, lastFetched, alarm, storage, mailbox,
                 cyc, lm, ini, so, sv, cl, http, resp>>

\* ---------------------------------------------------------------------------
\* handleMessage: saveSettings (src/unnamed/part_000)
\* ---------------------------------------------------------------------------
\* the data of a saveSettings request; 0 / Unset: the key is not in data
SettingsData == [refreshInterval : {0} \cup Intervals,
                 notificationsEnabled : {Unset, "true", "false"}]

\* the data of the saveSettings requests of the popup, over the whole select
PopupSettingsData == [refreshInterval : {0} \cup SelectIntervals,
                      notificationsEnabled : {Unset, "true", "false"}]

\* chrome.storage.local.set(data)
StorageSet(data) ==
  [refreshInterval |-> IF data.refreshInterval # 0 THEN data.refreshInterval
                       ELSE storage.refreshInterval,
   notificationsEnabled |-> IF data.notificationsEnabled # Unset THEN data.notificationsEnabled
                            ELSE storage.notificationsEnabled]

SaveSettingsBegin(data) ==
  /\ Idle("saveSettings")
  /\ sv' = data
  /\ pc' = [KeptPc EXCEPT !["saveSettings"] = "set"]
  /\ http' = Kept(http, <<>>)
  /\ resp' = [Kept(resp, NoAnswer) EXCEPT !["saveSettings"] = Pending]
  /\ OthersForgotten("saveSettings")
  /\ UNCHANGED <<accessToken, lastKnownMessageIds, lastFetched, isInitialized, alarm, storage, mailbox>>

\* storage.set settles; if (data.refreshInterval) setupRefreshAlarm(...)
SaveSettingsStored ==
  /\ pc["saveSettings"] = "set"
  /\ storage' = StorageSet(sv)
  /\ IF sv.refreshInterval # 0
     THEN /\ pc' = [pc EXCEPT !["saveSettings"] = "clear"]
          /\ UNCHANGED resp
     ELSE /\ pc' = [pc EXCEPT !["saveSettings"] = "done"]
          /\ resp' = [resp EXCEPT !["saveSettings"] = Answer("success", "")]
  /\ UNCHANGED <<accessToken, lastKnownMessageIds, lastFetched, isInitialized, alarm, mailbox,
                 cyc, lm, ini, so, sv, cl, http>>

SaveSettingsCleared ==
  /\ pc["saveSettings"] = "clear"
  /\ alarm' = NoAlarm
  /\ pc' = [pc EXCEPT !["saveSettings"] = "create"]
  /\ UNCHANGED <<accessToken, lastKnownMessageIds, lastFetched, isInitialized, storage, mailbox,
                 cyc, lm, ini, so, sv, cl, http, resp>>

SaveSettingsCreated ==
  /\ pc["saveSettings"] = "create"
  /\ alarm' = sv.refreshInterval
  /\ pc' = [pc EXCEPT !["saveSettings"] = "done"]
  /\ resp' = [resp EXCEPT !["saveSettings"] = Answer("success", "")]
  /\ UNCHANGED <<accessToken, lastKnownMessageIds, lastFetched, isInitialized, storage, mailbox,
                 cyc, lm, ini, so, sv, cl, http>>

\* ---------------------------------------------------------------------------
\* signOut (src/unnamed/part_000)
\* ---------------------------------------------------------------------------
\* chrome.identity.getAuthToken({ interactive: false }, ...) is called
SignOutBegin ==
  /\ Idle("signOut")
  /\ pc' = [KeptPc EXCEPT !["signOut"] = "token"]
  /\ so' = NoSignOut
  /\ http' = Kept(http, <<>>)
  /\ resp' = [Kept(resp, NoAnswer) EXCEPT !["signOut"] = Pending]
  /\ OthersForgotten("signOut")
  /\ UNCHANGED <<accessToken, lastKnownMessageIds, lastFetched, isInitialized, alarm, storage, mailbox>>

\* lines 117-120: the branch of the callback without a token
SignOutNoToken ==
  /\ accessToken' = NoToken
  /\ UNCHANGED lastKnownMessageIds

\* lines 112-116: the callback of removeCachedAuthToken
SignOutCleanup ==
  /\ accessToken' = NoToken
  /\ lastKnownMessageIds' = {}

\* the callback runs with tok (NoToken: the platform has no cached token)
SignOutToken(tok) ==
  /\ pc["signOut"] = "token"
  /\ IF tok # NoToken
     THEN /\ so' = [so EXCEPT !.token = tok]
          /\ http' = [http EXCEPT !["signOut"] = Append(@, Req("revoke", 0))]
          /\ pc' = [pc EXCEPT !["signOut"] = "revoke"]
          /\ UNCHANGED <<accessToken, lastKnownMessageIds, resp>>
     ELSE /\ SignOutNoToken
          /\ pc' = [pc EXCEPT !["signOut"] = "done"]
          /\ resp' = [resp EXCEPT !["signOut"] = Answer("success", "")]
          /\ UNCHANGED <<so, http>>
  /\ UNCHANGED <<lastFetched, isInitialized, alarm, storage, mailbox,
                 cyc, lm, ini, sv, cl>>

\* variant without the try/catch of lines 105-109: a failed revoke request rejects
\* signOut before removeCachedAuthToken is called
SignOutRevokeThrows(ok) ==
  /\ pc["signOut"] = "revoke"
  /\ so' = [so EXCEPT !.revoked = ok]
  /\ pc' = [pc EXCEPT !["signOut"] = IF ok THEN "remove" ELSE "done"]
  /\ resp' = [resp EXCEPT !["signOut"] = IF ok THEN @ ELSE Caught("Failed to fetch")]
  /\ UNCHANGED <<accessToken, lastKnownMessageIds, lastFetched, isInitialized, alarm, storage, mailbox,
                 cyc, lm, ini, sv, cl, http>>

\* the revoke fetch settles (a failure is caught and logged);
\* chrome.identity.removeCachedAuthToken is called
SignOutRevoked(ok) ==
  /\ pc["signOut"] = "revoke"
  /\ so' = [so EXCEPT !.revoked = ok]
  /\ pc' = [pc EXCEPT !["signOut"] = "remove"]
  /\ UNCHANGED <<accessToken, lastKnownMessageIds, lastFetched, isInitialized, alarm, storage, mailbox,
                 cyc, lm, ini, sv, cl, http, resp>>

SignOutRemoved ==
  /\ pc["signOut"] = "remove"
  /\ SignOutCleanup
  /\ pc' = [pc EXCEPT !["signOut"] = "done"]
  /\ resp' = [resp EXCEPT !["signOut"] = Answer("success", "")]
  /\ UNCHANGED <<lastFetched, isInitialized, alarm, storage, mailbox,
                 cyc, lm, ini, so, sv, cl, http>>

\* ---------------------------------------------------------------------------
\* the other operations of GmailAPI, called by handleMessage for the bridge
\* ---------------------------------------------------------------------------
ClientOps == {"getProfile", "listMessages", "getMessage", "sendMessage", "replyToMessage",
              "forwardMessage", "trashMessage", "deleteMessage", "toggleStar",
              "markAsRead", "markAsUnread"}

\* replyToMessage and forwardMessage fetch the original, then call sendMessage
TwoStageOps == {"replyToMessage", "forwardMessage"}

\* ---- the provider's messages, as messages.get returns them ----
\* the names parseEmailHeaders looks for
HeaderNames == {"From", "To", "Subject", "Date", "Message-ID", "References", "In-Reply-To"}

\* header.name.toLowerCase()
ToLowerCase(name) ==
  CASE name \in {"From", "from", "FROM"} -> "from"
    [] name \in {"Message-ID", "Message-Id"} -> "message-id"
    [] name = "References" -> "references"
    [] name = "To" -> "to"
    [] name = "Subject" -> "subject"
    [] name = "Date" -> "date"
    [] name = "In-Reply-To" -> "in-reply-to"
    [] name = "X-Mailer" -> "x-mailer"
    [] OTHER -> "other"

Header(name, value) == [name |-> name, value |-> value]

\* response.threadId and response.payload.headers of message id: header names are
\* spelled as the sending system wrote them; a References value is a list of ids
RawMessage(id) ==
  CASE id = 1 -> [threadId |-> "t1",
                  headers |-> <<Header("From", <<"Ann <ann@x.org>">>),
                                Header("Message-ID", <<"<m1>">>),
                                Header("References", <<"<m0>">>)>>]
    [] id = 2 -> [threadId |-> "t2",
                  headers |-> <<Header("From", <<"bob@x.org">>),
                                Header("Message-Id", <<"<m2>">>)>>]
    [] OTHER -> [threadId |-> "t3",
                 headers |-> <<Header("From", <<"cy@x.org">>),
                               Header("Message-ID", <<"<m3>">>)>>]

\* the value parseEmailHeaders keeps under key: that of the last header whose name
\* is one of HeaderNames and lower-cases to key, <<>> when there is none
ParseEmailHeaders(headers, key) ==
  LET hits == {i \in 1..Len(headers) :
                 headers[i].name \in HeaderNames /\ ToLowerCase(headers[i].name) = key}
  IN IF hits = {} THEN <<>>
     ELSE headers[CHOOSE i \in hits : \A j \in hits : j <= i].value

\* the keys of the object parseEmailHeaders returns
ParsedKeys(headers) ==
  {ToLowerCase(headers[i].name) : i \in {j \in 1..Len(headers) : headers[j].name \in HeaderNames}}

\* parseEmailHeaders(payload) for payload.headers
ParsedHeaders(headers) == [k \in ParsedKeys(headers) |-> ParseEmailHeaders(headers, k)]

\* a single-valued header as a string, "" when it is undefined
Text(value) == IF value = <<>> THEN "" ELSE value[1]

\* getMessage(id, 'full'): threadId and headers of the parsed message
GetMessage(id) ==
  LET raw == RawMessage(id) IN
  [threadId |-> raw.threadId,
   from |-> Text(ParseEmailHeaders(raw.headers, "from")),
   messageId |-> Text(ParseEmailHeaders(raw.headers, "message-id")),
   references |-> ParseEmailHeaders(raw.headers, "references")]

\* sendMessage: createMimeMessage writes In-Reply-To and References when they are
\* truthy, and payload.threadId is set when threadId is truthy
SendMessage(to, threadId, inReplyTo, references) ==
  [NoPayload EXCEPT !.to = to, !.threadId = threadId,
                    !.inReplyTo = inReplyTo, !.references = references]

\* `${undefined}` in a template literal
Interpolated(text) == IF text = "" THEN "undefined" ELSE text

\* replyToMessage, lines 204-215, for the parsed original
ReplyToMessage(original) ==
  SendMessage(original.from, original.threadId, original.messageId,
              IF original.references # <<>>
              THEN original.references \o <<Interpolated(original.messageId)>>
              ELSE IF original.messageId # "" THEN <<original.messageId>> ELSE <<>>)

\* variant: the forward continues the thread of the original
ForwardMessageInThread(original) == SendMessage("to@x.org", original.threadId, "", <<>>)

\* forwardMessage, lines 246-250: to is the caller's
ForwardMessage(original) == SendMessage("to@x.org", "", "", <<>>)

\* modifyLabels, lines 282-287
ModifyLabels(addLabelIds, removeLabelIds) ==
  [NoPayload EXCEPT !.addLabelIds = addLabelIds, !.removeLabelIds = removeLabelIds]

MarkAsRead == ModifyLabels(<<>>, <<"UNREAD">>)

MarkAsUnread == ModifyLabels(<<"UNREAD">>, <<>>)

StarMessage == ModifyLabels(<<"STARRED">>, <<>>)

UnstarMessage == ModifyLabels(<<>>, <<"STARRED">>)

\* variant: the star is set when it is there and removed when it is not
ToggleStarInverted(isCurrentlyStarred) ==
  IF isCurrentlyStarred THEN StarMessage ELSE UnstarMessage

ToggleStar(isCurrentlyStarred) ==
  IF isCurrentlyStarred THEN UnstarMessage ELSE StarMessage

\* the arguments a bridge request for op may carry
ArgsOf(op) ==
  CASE op = "toggleStar" -> {[NoArgs EXCEPT !.isStarred = b] : b \in BOOLEAN}
    [] op = "sendMessage" -> {[NoArgs EXCEPT !.threadId = t] : t \in {"", "t9"}}
    [] OTHER -> {NoArgs}

\* what the first request of an operation carries
FirstPayload(op, args) ==
  CASE op = "sendMessage" -> SendMessage("to@x.org", args.threadId, "", <<>>)
    [] op = "toggleStar" -> ToggleStar(args.isStarred)
    [] op = "markAsRead" -> MarkAsRead
    [] op = "markAsUnread" -> MarkAsUnread
    [] OTHER -> NoPayload

\* what the send request of replyToMessage / forwardMessage carries
SecondPayload(op, id) ==
  IF op = "replyToMessage" THEN ReplyToMessage(GetMessage(id))
  ELSE ForwardMessage(GetMessage(id))

\* the request an operation issues first
FirstRequest(op, id) ==
  CASE op = "getProfile" -> Req("profile", 0)
    [] op = "listMessages" -> Req("list", 0)
    [] op \in {"getMessage", "replyToMessage", "forwardMessage"} -> Req("get", id)
    [] op = "sendMessage" -> Req("send", 0)
    [] op = "trashMessage" -> Req("trash", id)
    [] op = "deleteMessage" -> Req("delete", id)
    [] OTHER -> Req("modify", id)

\* the last HTTP status the running client operation received, 0 when none
LastStatus == IF cl.op = "listMessages" THEN lm["client"].status ELSE cl.status

ClientFail(e) ==
  /\ pc' = [pc EXCEPT !["client"] = "done"]
  /\ resp' = [resp EXCEPT !["client"] = Caught(e)]

\* the first fetch of an operation: request() throws when there is no token
ClientFirst(op, id) ==
  IF ~HasToken
  THEN [pc |-> "done", http |-> <<>>, resp |-> Caught(AUTH_REQUIRED)]
  ELSE [pc |-> IF op = "listMessages" THEN "list" ELSE "await",
        http |-> <<FirstRequest(op, id)>>, resp |-> Pending]

\* a bridge request for a client operation: the operation runs up to its first fetch
ClientCall(op, id, args) ==
  /\ Idle("client")
  /\ cl' = [NoClient EXCEPT !.op = op, !.id = id, !.args = args, !.stage = 1,
                            !.payload = IF HasToken THEN FirstPayload(op, args) ELSE NoPayload,
                            !.prev401 = (pc["client"] = "done" /\ LastStatus = 401)]
  /\ LET f == ClientFirst(op, id) IN
     /\ pc' = [KeptPc EXCEPT !["client"] = f.pc]
     /\ http' = [Kept(http, <<>>) EXCEPT !["client"] = f.http]
     /\ resp' = [Kept(resp, NoAnswer) EXCEPT !["client"] = f.resp]
     /\ lm' = [Kept(lm, NoLm) EXCEPT !["client"] =
                 IF f.pc = "list" THEN [NoLm EXCEPT !.state = "list"] ELSE NoLm]
  /\ OthersForgotten("client")
  /\ UNCHANGED <<accessToken, lastKnownMessageIds, lastFetched, isInitialized, alarm, storage, mailbox>>

\* actions the bridge does not know (starMessage is a method of the client only)
UnknownActions == {"archive", "starMessage"}

\* `Unknown action: ${action}`
UnknownActionText(action) ==
  CASE action = "archive" -> "Unknown action: archive"
    [] action = "starMessage" -> "Unknown action: starMessage"
    [] OTHER -> "Unknown action: other"

\* a bridge request with an action that is none of the cases: the default case throws
UnknownAction(action) ==
  /\ Idle("client")
  /\ cl' = [NoClient EXCEPT !.op = action]
  /\ pc' = [KeptPc EXCEPT !["client"] = "done"]
  /\ http' = Kept(http, <<>>)
  /\ resp' = [Kept(resp, NoAnswer) EXCEPT !["client"] = Caught(UnknownActionText(action))]
  /\ lm' = Kept(lm, NoLm)
  /\ OthersForgotten("client")
  /\ UNCHANGED <<accessToken, lastKnownMessageIds, lastFetched, isInitialized, alarm, storage, mailbox>>

\* the response of the pending request of the operation arrives
ClientResponse(status, body) ==
  /\ pc["client"] = "await"
  /\ cl' = [cl EXCEPT !.status = status, !.body = body,
                      !.stage = IF ResponseOk(status) /\ cl.op \in TwoStageOps /\ HasToken
                                THEN 2 ELSE @,
                      !.payload = IF ResponseOk(status) /\ cl.op \in TwoStageOps
                                     /\ cl.stage = 1 /\ HasToken
                                  THEN SecondPayload(cl.op, cl.id) ELSE @]
  /\ IF ~ResponseOk(status)
     THEN ClientFail(ResponseError(status, body)) /\ UNCHANGED http
     ELSE IF cl.op \in TwoStageOps /\ cl.stage = 1
     THEN IF ~HasToken
          THEN ClientFail(AUTH_REQUIRED) /\ UNCHANGED http
          ELSE /\ http' = [http EXCEPT !["client"] = Append(@, Req("send", 0))]
               /\ UNCHANGED <<pc, resp>>
     ELSE /\ pc' = [pc EXCEPT !["client"] = "done"]
          /\ resp' = [resp EXCEPT !["client"] = Answer("success", "")]
          /\ UNCHANGED http
  /\ UNCHANGED <<accessToken, lastKnownMessageIds, lastFetched, isInitialized, alarm, storage, mailbox,
                 cyc, lm, ini, so, sv>>

\* ---------------------------------------------------------------------------
\* base64Encode / base64Decode (src/api/utils.js)
\* A string is the sequence of its UTF-16 code units, a binary string and a
\* base64 text are sequences of character codes.
\* ---------------------------------------------------------------------------
\* 'A', e-acute, the euro sign, the two halves of a surrogate pair (U+1F600), U+FEFF
CodeUnits == {65, 233, 8364, 55357, 56832, 65279}

RECURSIVE SeqsUpTo(_, _)
SeqsUpTo(S, n) ==
  IF n = 0 THEN {<<>>}
  ELSE LET shorter == SeqsUpTo(S, n - 1)
       IN shorter \cup {Append(s, x) : s \in shorter, x \in S}

Strings == SeqsUpTo(CodeUnits, MaxStrLen)

IsHighSurrogate(c) == c \in 55296..56319

IsLowSurrogate(c) == c \in 56320..57343

\* the scalar values TextEncoder sees: a surrogate pair is one code point, a
\* surrogate without its partner becomes U+FFFD
RECURSIVE ToScalars(_)
ToScalars(s) ==
  IF s = <<>> THEN <<>>
  ELSE IF IsHighSurrogate(s[1]) /\ Len(s) >= 2 /\ IsLowSurrogate(s[2])
  THEN <<65536 + (s[1] - 55296) * 1024 + (s[2] - 56320)>> \o ToScalars(SubSeq(s, 3, Len(s)))
  ELSE IF IsHighSurrogate(s[1]) \/ IsLowSurrogate(s[1])
  THEN <<65533>> \o ToScalars(Tail(s))
  ELSE <<s[1]>> \o ToScalars(Tail(s))

\* the UTF-8 bytes of one code point
Utf8Bytes(cp) ==
  IF cp < 128 THEN <<cp>>
  ELSE IF cp < 2048 THEN <<192 + (cp \div 64), 128 + (cp % 64)>>
  ELSE IF cp < 65536 THEN <<224 + (cp \div 4096), 128 + ((cp \div 64) % 64), 128 + (cp % 64)>>
  ELSE <<240 + (cp \div 262144), 128 + ((cp \div 4096) % 64), 128 + ((cp \div 64) % 64),
         128 + (cp % 64)>>

RECURSIVE Utf8OfScalars(_)
Utf8OfScalars(cps) ==
  IF cps = <<>> THEN <<>> ELSE Utf8Bytes(cps[1]) \o Utf8OfScalars(Tail(cps))

\* new TextEncoder().encode(str)
TextEncode(str) == Utf8OfScalars(ToScalars(str))

\* the character of the base64 alphabet with value v: A-Z, a-z, 0-9, '+', '/'
B64Char(v) ==
  IF v < 26 THEN 65 + v
  ELSE IF v < 52 THEN 97 + (v - 26)
  ELSE IF v < 62 THEN 48 + (v - 52)
  ELSE IF v = 62 THEN 43 ELSE 47

\* btoa(binary): four characters for every three bytes, '=' (61) as padding
RECURSIVE Btoa(_)
Btoa(bytes) ==
  IF bytes = <<>> THEN <<>>
  ELSE LET n == Len(bytes)
           b1 == bytes[1]
           b2 == IF n >= 2 THEN bytes[2] ELSE 0
           b3 == IF n >= 3 THEN bytes[3] ELSE 0
           c1 == B64Char(b1 \div 4)
           c2 == B64Char(((b1 % 4) * 16) + (b2 \div 16))
           c3 == B64Char(((b2 % 16) * 4) + (b3 \div 64))
           c4 == B64Char(b3 % 64)
       IN IF n = 1 THEN <<c1, c2, 61, 61>>
          ELSE IF n = 2 THEN <<c1, c2, c3, 61>>
          ELSE <<c1, c2, c3, c4>> \o Btoa(SubSeq(bytes, 4, n))

\* str.replace(/x/g, 'y') for single characters
ReplaceAll(s, from, to) == [i \in 1..Len(s) |-> IF s[i] = from THEN to ELSE s[i]]

\* str.replace(/=+$/, '')
RECURSIVE StripPadding(_)
StripPadding(s) ==
  IF s # <<>> /\ s[Len(s)] = 61 THEN StripPadding(SubSeq(s, 1, Len(s) - 1)) ELSE s

\* base64Encode(str)
Base64Encode(str) ==
  StripPadding(ReplaceAll(ReplaceAll(Btoa(TextEncode(str)), 43, 45), 47, 95))

\* while (base64.length % 4) base64 += '='
RECURSIVE Padded(_)
Padded(s) == IF Len(s) % 4 # 0 THEN Padded(Append(s, 61)) ELSE s

IsB64Char(c) == c \in (65..90) \cup (97..122) \cup (48..57) \cup {43, 47}

B64Value(c) ==
  IF c \in 65..90 THEN c - 65
  ELSE IF c \in 97..122 THEN c - 71
  ELSE IF c \in 48..57 THEN c + 4
  ELSE IF c = 43 THEN 62 ELSE 63

IsNotWhitespace(c) == c \notin {9, 10, 12, 13, 32}

\* the bytes of the characters of a base64 text without padding
RECURSIVE B64Bytes(_)
B64Bytes(d) ==
  LET n == Len(d)
      v(i) == B64Value(d[i])
  IN IF n < 2 THEN <<>>
     ELSE IF n = 2 THEN <<(v(1) * 4) + (v(2) \div 16)>>
     ELSE IF n = 3 THEN <<(v(1) * 4) + (v(2) \div 16), ((v(2) % 16) * 16) + (v(3) \div 4)>>
     ELSE <<(v(1) * 4) + (v(2) \div 16), ((v(2) % 16) * 16) + (v(3) \div 4), ((v(3) % 4) * 64) + v(4)>>
            \o B64Bytes(SubSeq(d, 5, n))

\* atob(data): ASCII whitespace is dropped, one or two '=' at the end of a text
\* whose length is a multiple of four are dropped, and the call throws when the
\* length then leaves the remainder one or a character is not of the alphabet
Atob(data) ==
  LET d1 == SelectSeq(data, IsNotWhitespace)
      n == Len(d1)
      d2 == IF n % 4 = 0 /\ n > 0 /\ d1[n] = 61
            THEN IF d1[n - 1] = 61 THEN SubSeq(d1, 1, n - 2) ELSE SubSeq(d1, 1, n - 1)
            ELSE d1
  IN IF Len(d2) % 4 = 1 \/ \E i \in 1..Len(d2) : ~IsB64Char(d2[i])
     THEN [threw |-> TRUE, value |-> <<>>]
     ELSE [threw |-> FALSE, value |-> B64Bytes(d2)]

\* the UTF-8 decoder of TextDecoder: a byte sequence that is no code point gives U+FFFD
RECURSIVE Utf8Decode(_)
Utf8Decode(b) ==
  IF b = <<>> THEN <<>>
  ELSE LET n == Len(b)
           b1 == b[1]
           need == IF b1 < 128 THEN 0
                   ELSE IF b1 \in 194..223 THEN 1
                   ELSE IF b1 \in 224..239 THEN 2
                   ELSE IF b1 \in 240..244 THEN 3 ELSE 4
           lo == IF b1 = 224 THEN 160 ELSE IF b1 = 240 THEN 144 ELSE 128
           hi == IF b1 = 237 THEN 159 ELSE IF b1 = 244 THEN 143 ELSE 191
           Follows(k) == /\ k + 1 <= n
                         /\ IF k = 1 THEN b[2] \in lo..hi ELSE b[k + 1] \in 128..191
           good == Cardinality({j \in 1..3 : j <= need /\ \A k \in 1..j : Follows(k)})
           cp == IF need = 1 THEN (b1 - 192) * 64 + (b[2] - 128)
                 ELSE IF need = 2 THEN (b1 - 224) * 4096 + (b[2] - 128) * 64 + (b[3] - 128)
                 ELSE (b1 - 240) * 262144 + (b[2] - 128) * 4096 + (b[3] - 128) * 64
                        + (b[4] - 128)
       IN IF need = 0 THEN <<b1>> \o Utf8Decode(Tail(b))
          ELSE IF need = 4 THEN <<65533>> \o Utf8Decode(Tail(b))
          ELSE IF good = need THEN <<cp>> \o Utf8Decode(SubSeq(b, need + 2, n))
          ELSE <<65533>> \o Utf8Decode(SubSeq(b, good + 2, n))

\* the UTF-16 code units of a sequence of code points
RECURSIVE FromScalars(_)
FromScalars(cps) ==
  IF cps = <<>> THEN <<>>
  ELSE (IF cps[1] >= 65536
        THEN <<55296 + ((cps[1] - 65536) \div 1024), 56320 + ((cps[1] - 65536) % 1024)>>
        ELSE <<cps[1]>>) \o FromScalars(Tail(cps))

\* new TextDecoder().decode(bytes): UTF-8, not fatal, and a byte order mark at the
\* start is not part of the result (ignoreBOM is false)
TextDecode(bytes) ==
  LET cps == Utf8Decode(bytes)
  IN FromScalars(IF cps # <<>> /\ cps[1] = 65279 THEN Tail(cps) ELSE cps)

\* base64Decode(str): the decoded string, or the exception of atob
Base64Decode(str) ==
  LET binary == Atob(Padded(ReplaceAll(ReplaceAll(str, 45, 43), 95, 47)))
  IN IF binary.threw THEN binary ELSE [threw |-> FALSE, value |-> TextDecode(binary.value)]

\* ---------------------------------------------------------------------------
\* extractEmailBody (src/api/utils.js) and the body of getMessage (src/api/gmail.js)
\* A part is [mimeType, data, parts]: data is part.body.data (<<>>: there is none),
\* parts the sub-parts (<<>>: there are none).
\* ---------------------------------------------------------------------------
Part(mimeType, data, parts) == [mimeType |-> mimeType, data |-> data, parts |-> parts]

NoBodies == [html |-> <<>>, plain |-> <<>>]

\* lines 112-120: the body of one part is decoded and kept by its type;
\* the exception of base64Decode is not caught here
OwnBody(part, result) ==
  IF part.data = <<>> THEN [threw |-> FALSE, value |-> result]
  ELSE LET decoded == Base64Decode(part.data)
       IN IF decoded.threw THEN [threw |-> TRUE, value |-> result]
          ELSE [threw |-> FALSE,
                value |-> IF part.mimeType = "text/html"
                          THEN [result EXCEPT !.html = decoded.value]
                          ELSE IF part.mimeType = "text/plain"
                          THEN [result EXCEPT !.plain = decoded.value]
                          ELSE result]

\* processPayload(part), and the loop of lines 122-126 over parts from index i
RECURSIVE ProcessPayload(_, _), ProcessParts(_, _, _)
ProcessPayload(part, result) ==
  LET own == OwnBody(part, result)
  IN IF own.threw THEN own ELSE ProcessParts(part.parts, 1, own.value)

ProcessParts(parts, i, result) ==
  IF i > Len(parts) THEN [threw |-> FALSE, value |-> result]
  ELSE LET sub == ProcessPayload(parts[i], result)
       IN IF sub.threw THEN sub ELSE ProcessParts(parts, i + 1, sub.value)

\* str.replace(/c/g, text) for a character c
RECURSIVE ReplaceWith(_, _, _)
ReplaceWith(s, c, text) ==
  IF s = <<>> THEN <<>>
  ELSE (IF s[1] = c THEN text ELSE <<s[1]>>) \o ReplaceWith(Tail(s), c, text)

\* lines 133-137: '&' to '&amp;', '<' to '&lt;', '>' to '&gt;', newline to '<br>'
PlainToHtml(plain) ==
  ReplaceWith(ReplaceWith(ReplaceWith(ReplaceWith(plain,
      38, <<38, 97, 109, 112, 59>>),
      60, <<38, 108, 116, 59>>),
      62, <<38, 103, 116, 59>>),
      10, <<60, 98, 114, 62>>)

\* extractEmailBody(payload): { html, plain }, or the exception that left it
ExtractEmailBody(payload) ==
  LET done == ProcessPayload(payload, NoBodies)
  IN IF done.threw THEN done
     ELSE IF done.value.html = <<>> /\ done.value.plain # <<>>
     THEN [threw |-> FALSE, value |-> [done.value EXCEPT !.html = PlainToHtml(done.value.plain)]]
     ELSE done

\* getMessage(id, 'full') once the response is in, lines 139-161: the parsed
\* message with its body, or the exception of extractEmailBody
GetMessageFull(payload) ==
  LET body == ExtractEmailBody(payload)
  IN IF body.threw THEN body
     ELSE [threw |-> FALSE, value |-> [headers |-> ParsedHeaders(<<>>), body |-> body.value]]

\* ---------------------------------------------------------------------------
\* the calls of the functions of utils.js
\* ---------------------------------------------------------------------------
\* header names as sending systems spell them, and one that is not looked for
SampleNames == {"From", "from", "FROM", "Message-Id", "X-Mailer"}

SampleHeaders == {Header(n, <<v>>) : n \in SampleNames, v \in {"a@x.org", "B@x.org"}}

\* part.body.data: none, 'QQ' (the text A), 'PA' (the text <), and '*', which is
\* no base64url text
SampleData == {<<>>, <<81, 81>>, <<80, 65>>, <<42>>}

Leaves == {Part(t, d, <<>>) : t \in {"text/plain", "text/html"}, d \in SampleData}

\* the payloads handed to extractEmailBody: one part, or a multipart of up to two
Payloads ==
  Leaves \cup {Part("multipart/alternative", <<>>, ps) : ps \in SeqsUpTo(Leaves, 2) \ {<<>>}}

\* payload.headers of the payloads handed to parseEmailHeaders
HeaderLists == SeqsUpTo(SampleHeaders, 2)

\* a call of a function of utils.js: what it was given and what came of it;
\* origin is the string a decoded text was encoded from
Called(fn, arg, origin, outcome) ==
  [fn |-> fn, arg |-> arg, origin |-> origin, threw |-> outcome.threw, value |-> outcome.value]

\* base64Encode(s) is evaluated
Base64EncodeCall(s) ==
  /\ call' = Called("base64Encode", s, s, [threw |-> FALSE, value |-> Base64Encode(s)])
  /\ UNCHANGED <<workerVars, notified>>

\* parseEmailHeaders({ headers }) is evaluated
ParseEmailHeadersCall(headers) ==
  /\ call' = Called("parseEmailHeaders", headers, headers,
                    [threw |-> FALSE, value |-> ParsedHeaders(headers)])
  /\ UNCHANGED <<workerVars, notified>>

\* extractEmailBody(payload) is evaluated
ExtractEmailBodyCall(payload) ==
  /\ call' = Called("extractEmailBody", payload, payload, ExtractEmailBody(payload))
  /\ UNCHANGED <<workerVars, notified>>

\* getMessage(id, 'full') goes on with the payload of the response
GetMessageFullCall(payload) ==
  /\ call' = Called("getMessage", payload, payload, GetMessageFull(payload))
  /\ UNCHANGED <<workerVars, notified>>

\* base64Decode is evaluated on the text the last call of base64Encode returned
Base64DecodeCall ==
  /\ call.fn = "base64Encode"
  /\ call' = Called("base64Decode", call.value, call.origin, Base64Decode(call.value))
  /\ UNCHANGED <<workerVars, notified>>

\* ---------------------------------------------------------------------------
\* the service worker is stopped and started again: the module is loaded anew
\* (lines 13-15 and 302); storage and alarms are the platform's and stay
\* ---------------------------------------------------------------------------
IdleProcs == [p \in Procs |-> IF p = "load" THEN "settings" ELSE "idle"]

Loaded ==
  /\ accessToken = NoToken
  /\ lastKnownMessageIds = {}
  /\ lastFetched = NoFetch
  /\ isInitialized = FALSE
  /\ pc = IdleProcs
  /\ cyc = [c \in Cycles |-> NoCycle]
  /\ lm = [p \in LmCallers |-> NoLm]
  /\ ini = [p \in InitProcs |-> 0]
  /\ so = NoSignOut
  /\ sv = NoData
  /\ cl = NoClient
  /\ http = [p \in Procs |-> <<>>]
  /\ resp = [p \in Procs |-> NoAnswer]

Restart ==
  /\ Quiescent
  /\ accessToken' = NoToken
  /\ lastKnownMessageIds' = {}
  /\ lastFetched' = NoFetch
  /\ isInitialized' = FALSE
  /\ pc' = IdleProcs
  /\ cyc' = [c \in Cycles |-> NoCycle]
  /\ lm' = [p \in LmCallers |-> NoLm]
  /\ ini' = [p \in InitProcs |-> 0]
  /\ so' = NoSignOut
  /\ sv' = NoData
  /\ cl' = NoClient
  /\ http' = [p \in Procs |-> <<>>]
  /\ resp' = [p \in Procs |-> NoAnswer]
  /\ UNCHANGED <<alarm, storage, mailbox>>

Init ==
  /\ Loaded
  /\ alarm = NoAlarm
  /\ storage = NoData
  /\ mailbox \in SUBSET MsgIds
  /\ notified = [m \in MsgIds |-> 0]
  /\ call = NoCall

\* ---------------------------------------------------------------------------
\* specifications
\* ---------------------------------------------------------------------------
\* an invocation of a handler of the background process begins
Begin ==
  \/ AlarmFires
  \/ RefreshEmails
  \/ \E d \in SettingsData : SaveSettingsBegin(d)
  \/ SignOutBegin

\* a suspended invocation continues after its await
Continue ==
  \/ \E c \in Cycles, tok \in {Token, NoToken} : CycleAuth(c, tok) /\ Unobserved
  \/ \E c \in Cycles : CycleSettings(c) /\ Unobserved
  \/ \E c \in Cycles, ok \in BOOLEAN : CycleNotified(c, ok) /\ Unobserved
  \/ \E c \in Cycles, st \in Statuses, b \in Bodies : ListResponse(c, st, b) /\ Unobserved
  \/ \E c \in Cycles, i \in 1..MaxMsgId, st \in Statuses, b \in Bodies :
       DetailResponse(c, i, st, b) /\ Unobserved
  \/ \E p \in InitProcs : InitializeSettings(p) /\ Unobserved
  \/ \E p \in InitProcs : InitializeCleared(p) /\ Unobserved
  \/ \E p \in InitProcs : InitializeCreated(p) /\ Unobserved
  \/ \E p \in InitProcs, tok \in {Token, NoToken} : InitializeAuth(p, tok) /\ Unobserved
  \/ SaveSettingsStored /\ Unobserved
  \/ SaveSettingsCleared /\ Unobserved
  \/ SaveSettingsCreated /\ Unobserved
  \/ \E tok \in {Token, NoToken} : SignOutToken(tok) /\ Unobserved
  \/ \E ok \in BOOLEAN : SignOutRevoked(ok) /\ Unobserved
  \/ SignOutRemoved /\ Unobserved

Environment ==
  \/ \E m \in MsgIds : Arrive(m) /\ Unobserved
  \/ \E m \in MsgIds : Gone(m) /\ Unobserved
  \/ Restart /\ Unobserved

\* handlers run one at a time
Next ==
  \/ (Quiescent /\ Begin /\ Unobserved)
  \/ Continue
  \/ Environment

Spec == Init /\ [][Next]_vars

\* the bridge's client operations, one request at a time
NextClient ==
  \/ (Quiescent /\ Unobserved
        /\ \E op \in ClientOps, id \in MsgIds : \E a \in ArgsOf(op) : ClientCall(op, id, a))
  \/ (Quiescent /\ Unobserved /\ \E a \in UnknownActions : UnknownAction(a))
  \/ \E st \in ClientStatuses, b \in Bodies : ClientResponse(st, b) /\ Unobserved
  \/ \E st \in ClientStatuses, b \in Bodies : ListResponse("client", st, b) /\ Unobserved
  \/ \E i \in 1..MaxMsgId, st \in ClientStatuses, b \in Bodies :
       DetailResponse("client", i, st, b) /\ Unobserved
  \/ InitializeSettings("load") /\ Unobserved
  \/ InitializeCleared("load") /\ Unobserved
  \/ InitializeCreated("load") /\ Unobserved
  \/ \E tok \in {Token, NoToken} : InitializeAuth("load", tok) /\ Unobserved
  \/ (Quiescent /\ SignOutBegin /\ Unobserved)
  \/ \E tok \in {Token, NoToken} : SignOutToken(tok) /\ Unobserved
  \/ \E ok \in BOOLEAN : SignOutRevoked(ok) /\ Unobserved
  \/ SignOutRemoved /\ Unobserved
  \/ Environment

SpecClient == Init /\ [][NextClient]_vars

\* initialization and the settings requests of the popup, one handler at a time
NextSettings ==
  \/ (Quiescent /\ Unobserved /\ \E p \in InitProcs : InitializeEvent(p))
  \/ \E p \in InitProcs : InitializeSettings(p) /\ Unobserved
  \/ \E p \in InitProcs : InitializeCleared(p) /\ Unobserved
  \/ \E p \in InitProcs : InitializeCreated(p) /\ Unobserved
  \/ \E p \in InitProcs, tok \in {Token, NoToken} : InitializeAuth(p, tok) /\ Unobserved
  \/ (Quiescent /\ Unobserved /\ \E d \in PopupSettingsData : SaveSettingsBegin(d))
  \/ SaveSettingsStored /\ Unobserved
  \/ SaveSettingsCleared /\ Unobserved
  \/ SaveSettingsCreated /\ Unobserved
  \/ Restart /\ Unobserved

SpecSettings == Init /\ [][NextSettings]_vars

\* handlers interleave at their awaits
NextAsync ==
  \/ Begin /\ Unobserved
  \/ \E p \in InitProcs : InitializeEvent(p) /\ Unobserved
  \/ Continue
  \/ Environment

SpecAsync == Init /\ [][NextAsync]_vars

\* two poll cycles, one from the alarm and one from refreshEmails, interleave at
\* their awaits; every request succeeds
NextOverlap ==
  \/ AlarmFires /\ Unobserved
  \/ RefreshEmails /\ Unobserved
  \/ \E c \in Cycles : CycleAuth(c, Token) /\ Unobserved
  \/ \E c \in Cycles : CycleSettings(c) /\ Unobserved
  \/ \E c \in Cycles : CycleNotified(c, TRUE) /\ Unobserved
  \/ \E c \in Cycles : ListResponse(c, 200, NoBody) /\ Unobserved
  \/ \E c \in Cycles, i \in 1..MaxMsgId : DetailResponse(c, i, 200, NoBody) /\ Unobserved
  \/ InitializeSettings("load") /\ Unobserved
  \/ InitializeCleared("load") /\ Unobserved
  \/ InitializeCreated("load") /\ Unobserved
  \/ InitializeAuth("load", Token) /\ Unobserved
  \/ \E m \in MsgIds : Arrive(m) /\ Unobserved

SpecOverlap == Init /\ [][NextOverlap]_vars

\* the functions of utils.js, called one at a time
NextUtils ==
  \/ \E s \in Strings : Base64EncodeCall(s)
  \/ Base64DecodeCall
  \/ \E h \in HeaderLists : ParseEmailHeadersCall(h)
  \/ \E p \in Payloads : ExtractEmailBodyCall(p)
  \/ \E p \in Payloads : GetMessageFullCall(p)

\* the worker plays no part: it stays as it was loaded, with an empty inbox
InitUtils == Init /\ mailbox = {}

SpecUtils == InitUtils /\ [][NextUtils]_vars

\* signOut and the poll cycle of the alarm interleave at their awaits; every
\* request of the cycle succeeds
NextSignOutRace ==
  \/ AlarmFires /\ Unobserved
  \/ \E tok \in {Token, NoToken} : CycleAuth("alarm", tok) /\ Unobserved
  \/ CycleSettings("alarm") /\ Unobserved
  \/ CycleNotified("alarm", TRUE) /\ Unobserved
  \/ ListResponse("alarm", 200, NoBody) /\ Unobserved
  \/ \E i \in 1..MaxMsgId : DetailResponse("alarm", i, 200, NoBody) /\ Unobserved
  \/ SignOutBegin /\ Unobserved
  \/ \E tok \in {Token, NoToken} : SignOutToken(tok) /\ Unobserved
  \/ \E ok \in BOOLEAN : SignOutRevoked(ok) /\ Unobserved
  \/ SignOutRemoved /\ Unobserved
  \/ InitializeSettings("load") /\ Unobserved
  \/ InitializeCleared("load") /\ Unobserved
  \/ InitializeCreated("load") /\ Unobserved
  \/ InitializeAuth("load", Token) /\ Unobserved
  \/ \E m \in MsgIds : Arrive(m) /\ Unobserved

SpecSignOutRace == Init /\ [][NextSignOutRace]_vars

\* the messages showNotification is called for in this step
RaisedNow ==
  {cyc'[c].raised[Len(cyc'[c].raised)] :
     c \in {d \in Cycles : Len(cyc'[d].raised) > Len(cyc[d].raised)}}

\* the history of a step of a cycle: what it notifies is counted, unless it was
\* read in the meantime
Recorded ==
  /\ notified' = [m \in MsgIds |-> IF m \in RaisedNow \cap mailbox
                                   THEN Min(notified[m] + 1, MaxNotified)
                                   ELSE notified[m]]
  /\ UNCHANGED call

\* the poll cycles of the alarm, one at a time, every request succeeding, with the
\* history of what was notified: a message leaves the history when it is no longer
\* unread, and the history starts anew with the process
NextPoll ==
  \/ (Quiescent /\ AlarmFires /\ Unobserved)
  \/ CycleAuth("alarm", Token) /\ Unobserved
  \/ CycleSettings("alarm") /\ Unobserved
  \/ ListResponse("alarm", 200, NoBody) /\ Recorded
  \/ \E i \in 1..MaxMsgId : DetailResponse("alarm", i, 200, NoBody) /\ Recorded
  \/ CycleNotified("alarm", TRUE) /\ Recorded
  \/ InitializeSettings("load") /\ Unobserved
  \/ InitializeCleared("load") /\ Unobserved
  \/ InitializeCreated("load") /\ Unobserved
  \/ InitializeAuth("load", Token) /\ Unobserved
  \/ \E m \in MsgIds : Arrive(m) /\ notified' = [notified EXCEPT ![m] = 0] /\ UNCHANGED call
  \/ \E m \in MsgIds : Gone(m) /\ notified' = [notified EXCEPT ![m] = 0] /\ UNCHANGED call
  \/ Restart /\ notified' = [m \in MsgIds |-> 0] /\ UNCHANGED call

SpecPoll == Init /\ [][NextPoll]_vars

\* the three calls of initialize() interleave at their awaits
NextInit ==
  \/ \E p \in InitProcs : InitializeEvent(p) /\ Unobserved
  \/ \E p \in InitProcs : InitializeSettings(p) /\ Unobserved
  \/ \E p \in InitProcs : InitializeCleared(p) /\ Unobserved
  \/ \E p \in InitProcs : InitializeCreated(p) /\ Unobserved
  \/ \E p \in InitProcs, tok \in {Token, NoToken} : InitializeAuth(p, tok) /\ Unobserved
  \/ Restart /\ Unobserved

SpecInit == Init /\ [][NextInit]_vars

\* ---------------------------------------------------------------------------
\* properties of the poll cycle, checked under Spec
\* ---------------------------------------------------------------------------
\* how many notifications of a cycle carry message id
Count(s, id) == Cardinality({i \in 1..Len(s) : s[i] = id})

\* C1: a cycle that starts with an empty last-seen set and fetches any number of
\* unread messages raises no notification, and when it has ended the last-seen set
\* is exactly the set of fetched ids.
BaselineCycleIsSilent ==
  \A c \in Cycles :
    (pc[c] = "done" /\ cyc[c].startSeen = {} /\ cyc[c].fetched)
      => /\ cyc[c].raised = <<>>
         /\ lastKnownMessageIds = Range(cyc[c].messages)

BaselineCycleSeen ==
  \E c \in Cycles :
    /\ pc[c] = "done"
    /\ cyc[c].startSeen = {}
    /\ cyc[c].fetched
    /\ Len(cyc[c].messages) >= 2
    /\ lastKnownMessageIds = Range(cyc[c].messages)

\* C2: a cycle that starts with a non-empty last-seen set and completes without
\* error raises exactly one notification for each fetched id that is not in the
\* last-seen set, none for a fetched id that is in it, and none for anything else.
OneNotificationPerNewId ==
  \A c \in Cycles :
    (pc[c] = "done" /\ cyc[c].startSeen # {} /\ cyc[c].outcome = "completed")
      => /\ \A id \in Range(cyc[c].messages) :
              Count(cyc[c].raised, id) = IF id \in cyc[c].startSeen THEN 0 ELSE 1
         /\ Range(cyc[c].raised) \subseteq Range(cyc[c].messages)

NewAndSeenIdsFetched ==
  \E c \in Cycles :
    /\ pc[c] = "done"
    /\ cyc[c].outcome = "completed"
    /\ cyc[c].startSeen # {}
    /\ Range(cyc[c].messages) \cap cyc[c].startSeen # {}
    /\ Range(cyc[c].messages) \ cyc[c].startSeen # {}
    /\ cyc[c].raised # <<>>

\* C3: only the first cycle since the process started is a baseline: a later cycle
\* that completes notifies every fetched id that the previous cycle did not fetch,
\* also when the previous cycle fetched nothing.
LaterCycleNotifiesNewIds ==
  \A c \in Cycles :
    (pc[c] = "done" /\ cyc[c].outcome = "completed" /\ cyc[c].prev.any)
      => Range(cyc[c].messages) \ cyc[c].prev.ids \subseteq Range(cyc[c].raised)

\* a completed cycle after one that fetched nothing: mail has arrived, none is notified
SilentAfterEmptyFetch ==
  \E c \in Cycles :
    /\ pc[c] = "done"
    /\ cyc[c].outcome = "completed"
    /\ cyc[c].prev = [any |-> TRUE, ids |-> {}]
    /\ cyc[c].messages # <<>>
    /\ cyc[c].raised = <<>>

\* C4: when a cycle has completed its fetch and its notifications, the last-seen set
\* is the set of ids that cycle fetched: ids no longer fetched are dropped, nothing
\* is accumulated, baseline or not.
LastSeenReplacedWholesale ==
  \A c \in Cycles :
    (pc[c] = "done" /\ cyc[c].outcome = "completed")
      => lastKnownMessageIds = Range(cyc[c].messages)

SeenIdDropped ==
  \E c \in Cycles :
    /\ pc[c] = "done"
    /\ cyc[c].outcome = "completed"
    /\ cyc[c].startSeen \ Range(cyc[c].messages) # {}
    /\ cyc[c].messages # <<>>
    /\ lastKnownMessageIds = Range(cyc[c].messages)

\* C5: a cycle whose silent token acquisition yields no token ends without error,
\* issues no request, raises no notification and leaves the last-seen set as it was.
NoTokenCycleSkips ==
  \A c \in Cycles :
    (pc[c] = "done" /\ cyc[c].token = NoToken)
      => /\ cyc[c].err = ""
         /\ ~cyc[c].propagated
         /\ resp[c].kind \in {"success", "ignored"}
         /\ http[c] = <<>>
         /\ cyc[c].raised = <<>>
         /\ lastKnownMessageIds = cyc[c].startSeen

NoTokenCycleWithMail ==
  \E c \in Cycles :
    /\ pc[c] = "done"
    /\ cyc[c].token = NoToken
    /\ cyc[c].startSeen # {}
    /\ mailbox \ cyc[c].startSeen # {}
    /\ accessToken # NoToken

\* C6: a cycle that runs while notificationsEnabled is stored as false issues no
\* list or detail request, raises no notification and leaves the last-seen set as
\* it was; with the setting true or never stored, a cycle that has a token fetches.
DisabledCycleSkips ==
  \A c \in Cycles :
    /\ (pc[c] # "idle" /\ storage.notificationsEnabled = "false")
         => /\ http[c] = <<>>
            /\ cyc[c].raised = <<>>
            /\ lastKnownMessageIds = cyc[c].startSeen
    /\ (pc[c] = "done" /\ cyc[c].token = Token /\ storage.notificationsEnabled # "false")
         => /\ http[c] # <<>>
            /\ http[c][1] = Req("list", 0)

DisabledCycleWithMail ==
  \E c \in Cycles :
    /\ pc[c] = "done"
    /\ cyc[c].outcome = "disabled"
    /\ cyc[c].token = Token
    /\ storage.notificationsEnabled = "false"
    /\ cyc[c].startSeen # {}
    /\ mailbox \ cyc[c].startSeen # {}

\* C7: an error inside a cycle (the list request, a detail fetch, raising a
\* notification) is swallowed: the caller sees none (onAlarm nothing at all, the
\* refreshEmails action answers success), the last-seen set is as it was when the
\* cycle started, and the refresh alarm is still scheduled.
CycleErrorSwallowed ==
  \A c \in Cycles :
    (pc[c] = "done" /\ cyc[c].err # "")
      => /\ ~cyc[c].propagated
         /\ resp[c] = IF c = "refresh" THEN Answer("success", "") ELSE Answer("ignored", "")
         /\ lastKnownMessageIds = cyc[c].startSeen
         /\ alarm # NoAlarm

\* a notification failed after a fetch that differed from the last-seen set
NotificationFailedMidCycle ==
  \E c \in Cycles :
    /\ pc[c] = "done"
    /\ cyc[c].err # ""
    /\ cyc[c].fetched
    /\ cyc[c].raised # <<>>
    /\ Range(cyc[c].messages) # cyc[c].startSeen
    /\ lastKnownMessageIds = cyc[c].startSeen

\* C8: when signOut has completed, the access token is null and the last-seen set
\* is empty, on every path of signOut.
SignOutClearsTokenAndSeen ==
  pc["signOut"] = "done" => (accessToken = NoToken /\ lastKnownMessageIds = {})

\* signOut has completed on the path without a cached token; the last-seen set stays
SignedOutWithSeenIds ==
  /\ pc["signOut"] = "done"
  /\ resp["signOut"] = Answer("success", "")
  /\ so.token = NoToken
  /\ accessToken = NoToken
  /\ lastKnownMessageIds # {}

\* ---------------------------------------------------------------------------
\* properties of the API client, checked under SpecClient
\* ---------------------------------------------------------------------------
\* C9: while no access token is set, every client operation fails with the
\* auth-required error and issues no HTTP request.
NoTokenNoRequest ==
  (cl.op \in ClientOps /\ accessToken = NoToken)
    => /\ pc["client"] = "done"
       /\ resp["client"] = Answer("error", AUTH_REQUIRED)
       /\ http["client"] = <<>>

TwoStageOpWithoutToken ==
  /\ cl.op \in TwoStageOps
  /\ accessToken = NoToken
  /\ pc["client"] = "done"
  /\ resp["client"] = Answer("error", AUTH_REQUIRED)

\* C10: a response with status 401 makes the operation fail with AUTH_EXPIRED
\* whatever its body is, and a response with any other status never does.
ExpiredExactlyOn401 ==
  (pc["client"] = "done" /\ LastStatus # 0)
    => (LastStatus = 401 <=> resp["client"] = Answer("error", AUTH_EXPIRED))

\* the part of C10 about status 401 alone
Every401Expires ==
  (pc["client"] = "done" /\ LastStatus = 401)
    => resp["client"] = Answer("error", AUTH_EXPIRED)

\* an operation has failed with AUTH_EXPIRED on a response whose status is 403
ExpiredOn403 ==
  /\ pc["client"] = "done"
  /\ LastStatus = 403
  /\ cl.body.message = AUTH_EXPIRED
  /\ resp["client"] = Answer("error", AUTH_EXPIRED)

\* C11: when a request has received a 401 the client holds no token any more, so
\* the operation that follows fails as auth-required and sends nothing.
TokenClearedOnExpiry ==
  /\ (pc["client"] = "done" /\ LastStatus = 401) => accessToken = NoToken
  /\ cl.prev401 => /\ pc["client"] = "done"
                   /\ resp["client"] = Answer("error", AUTH_REQUIRED)
                   /\ http["client"] = <<>>

\* the operation after a 401 has sent a request with the token the client still holds
ExpiredTokenSentAgain ==
  /\ cl.prev401
  /\ accessToken = Token
  /\ http["client"] # <<>>

\* the message C12 expects for a failing response
ExpectedMessage(status, body) ==
  IF body.parsable /\ body.message # "" THEN body.message ELSE ApiErrorText(status)

ListFannedOut == cl.op = "listMessages" /\ lm["client"].det # <<>>

\* C13: listMessages is all-or-nothing: for N listed ids exactly N detail fetches
\* are issued, and when one of them fails the call fails and returns no message,
\* whatever became of the other fetches.
ListAllOrNothing ==
  ListFannedOut =>
    /\ http["client"] = <<Req("list", 0)>> \o
                        [i \in 1..Len(lm["client"].ids) |-> Req("get", lm["client"].ids[i])]
    /\ (\E i \in DOMAIN lm["client"].det : lm["client"].det[i] = "fail")
         => /\ lm["client"].state = "rejected"
            /\ pc["client"] = "done"
            /\ resp["client"].kind = "error"

\* three ids listed, two detail fetches delivered, one failed
OneOfThreeFailed ==
  /\ ListFannedOut
  /\ Len(lm["client"].ids) = 3
  /\ Delivered(lm["client"]) = 2
  /\ lm["client"].state = "rejected"
  /\ resp["client"].kind = "error"

\* C14 as stated: all detail fetches are issued at once, and the call settles, with
\* a result or with a failure, only when every detail fetch has completed or failed.
ListSettlesAfterEveryFetch ==
  ListFannedOut =>
    /\ Len(http["client"]) = 1 + Len(lm["client"].ids)
    /\ pc["client"] = "done" => \A i \in DOMAIN lm["client"].det : lm["client"].det[i] # "pending"

\* C14, as the code has it: all detail fetches are issued at once; the call resolves
\* only when every fetch has delivered, and it fails with the first fetch that fails,
\* while others may still be pending.
ListJoinsLikePromiseAll ==
  ListFannedOut =>
    /\ Len(http["client"]) = 1 + Len(lm["client"].ids)
    /\ lm["client"].state = "resolved"
         => \A i \in DOMAIN lm["client"].det : lm["client"].det[i] = "ok"
    /\ lm["client"].state = "details"
         => /\ pc["client"] = "details"
            /\ \A i \in DOMAIN lm["client"].det : lm["client"].det[i] # "fail"
            /\ \E i \in DOMAIN lm["client"].det : lm["client"].det[i] = "pending"
    /\ lm["client"].state = "rejected"
         => Cardinality({i \in DOMAIN lm["client"].det : lm["client"].det[i] = "fail"}) = 1

\* the call has failed with the first response while two fetches are still pending
FailedWhileFetchesPending ==
  /\ ListFannedOut
  /\ pc["client"] = "done"
  /\ lm["client"].state = "rejected"
  /\ Len(cl.order) = 1
  /\ Cardinality({i \in DOMAIN lm["client"].det : lm["client"].det[i] = "pending"}) = 2

\* C15: the messages a successful listMessages returns are in the order of the ids
\* of the list response, whatever order the detail fetches complete in.
ListOrderPreserved ==
  cl.op = "listMessages" =>
    /\ \A i \in DOMAIN lm["client"].out :
         lm["client"].out[i] # 0 => lm["client"].out[i] = lm["client"].ids[i]
    /\ lm["client"].state = "resolved" => lm["client"].out = lm["client"].ids

\* three messages returned in list order although the last fetch completed first
ReturnedInListOrderAfterReversedArrival ==
  /\ cl.op = "listMessages"
  /\ pc["client"] = "done"
  /\ lm["client"].state = "resolved"
  /\ cl.order = <<3, 2, 1>>
  /\ lm["client"].out = lm["client"].ids

\* the label lists C16 expects of a label operation
ExpectedLabels(op, args) ==
  CASE op = "toggleStar" /\ args.isStarred -> [add |-> <<>>, remove |-> <<"STARRED">>]
    [] op = "toggleStar" /\ ~args.isStarred -> [add |-> <<"STARRED">>, remove |-> <<>>]
    [] op = "markAsRead" -> [add |-> <<>>, remove |-> <<"UNREAD">>]
    [] OTHER -> [add |-> <<"UNREAD">>, remove |-> <<>>]

\* C16: toggleStar issues exactly one label-modify request and no fetch; it removes
\* STARRED (adding nothing) when the message is starred and adds STARRED (removing
\* nothing) when it is not; markAsRead removes only UNREAD, markAsUnread adds only it.
LabelOpsModifyOnce ==
  (cl.op \in {"toggleStar", "markAsRead", "markAsUnread"} /\ accessToken # NoToken)
    => /\ http["client"] = <<Req("modify", cl.id)>>
       /\ cl.payload.addLabelIds = ExpectedLabels(cl.op, cl.args).add
       /\ cl.payload.removeLabelIds = ExpectedLabels(cl.op, cl.args).remove

StarRemovedFromStarredMessage ==
  /\ cl.op = "toggleStar"
  /\ cl.args.isStarred
  /\ pc["client"] = "done"
  /\ resp["client"] = Answer("success", "")
  /\ cl.payload.removeLabelIds = <<"STARRED">>

\* the value of the header of message id that is called key, however it is spelled
HeaderOf(id, key) ==
  LET h == RawMessage(id).headers
      hits == {i \in 1..Len(h) : ToLowerCase(h[i].name) = key}
  IN IF hits = {} THEN <<>> ELSE h[CHOOSE i \in hits : TRUE].value

\* the address part of a From value
AddressOf(from) == IF from = "Ann <ann@x.org>" THEN "ann@x.org" ELSE from

\* C17: replyToMessage fetches the original and then sends one message: to the
\* address part of the original's From, in the original's thread, In-Reply-To the
\* original's message-id, References the original's references followed by its
\* message-id (the message-id alone when it has no references).
ReplyContinuesThread ==
  (cl.op = "replyToMessage" /\ cl.stage = 2)
    => /\ http["client"] = <<Req("get", cl.id), Req("send", 0)>>
       /\ cl.payload.to = AddressOf(Text(HeaderOf(cl.id, "from")))
       /\ cl.payload.threadId = RawMessage(cl.id).threadId
       /\ cl.payload.inReplyTo = Text(HeaderOf(cl.id, "message-id"))
       /\ cl.payload.references = HeaderOf(cl.id, "references") \o HeaderOf(cl.id, "message-id")

\* a reply to a message whose id header is spelled Message-Id has been sent without
\* In-Reply-To and References
ReplySentWithoutThreadHeaders ==
  /\ cl.op = "replyToMessage"
  /\ pc["client"] = "done"
  /\ resp["client"] = Answer("success", "")
  /\ HeaderOf(cl.id, "message-id") # <<>>
  /\ cl.payload.inReplyTo = ""
  /\ cl.payload.references = <<>>

\* C18: forwardMessage never attaches a threadId to its send request, whatever the
\* original's threadId; sendMessage attaches one only when the caller supplied it.
ThreadIdOnlyWhenSupplied ==
  /\ (cl.op = "forwardMessage" /\ cl.stage = 2)
       => /\ http["client"] = <<Req("get", cl.id), Req("send", 0)>>
          /\ cl.payload.threadId = ""
  /\ (cl.op = "sendMessage" /\ http["client"] # <<>>)
       => /\ http["client"] = <<Req("send", 0)>>
          /\ cl.payload.threadId = cl.args.threadId

ForwardLeavesThread ==
  /\ cl.op = "forwardMessage"
  /\ pc["client"] = "done"
  /\ resp["client"] = Answer("success", "")
  /\ GetMessage(cl.id).threadId # ""
  /\ cl.payload.threadId = ""

\* the invocations that serve a bridge request in SpecClient
BridgeProcs == {"client", "signOut"}

\* C19: every bridge request gets exactly one response, the success payload or
\* { error: message } when the operation fails; no error leaves the listener; an
\* action that is not listed is answered { error: 'Unknown action: <name>' } and
\* calls no client operation.
OneResponsePerRequest ==
  /\ [](\A p \in BridgeProcs :
          /\ resp[p].kind # "unhandled"
          /\ pc[p] = "done" => resp[p].kind \in {"success", "error"}
          /\ pc[p] \notin {"idle", "done"} => resp[p] = Pending)
  /\ []((pc["client"] = "done" /\ LastStatus # 0 /\ ~ResponseOk(LastStatus))
          => resp["client"].kind = "error")
  /\ [](cl.op \in UnknownActions
          => /\ pc["client"] = "done"
             /\ resp["client"] = Answer("error", UnknownActionText(cl.op))
             /\ http["client"] = <<>>)
  /\ [][\A p \in BridgeProcs :
          /\ pc[p] \notin {"idle", "done"}
               => \/ pc'[p] \notin {"idle", "done"} /\ resp'[p] = Pending
                  \/ pc'[p] = "done" /\ resp'[p].kind \in {"success", "error"}
          /\ (pc[p] = "done" /\ pc'[p] = "done" /\ cl' = cl /\ so' = so)
               => resp'[p] = resp[p]]_vars

UnknownActionAnswered ==
  /\ cl.op = "starMessage"
  /\ accessToken = Token
  /\ pc["client"] = "done"
  /\ resp["client"] = Answer("error", "Unknown action: starMessage")
  /\ http["client"] = <<>>

\* C30: signOut always completes successfully and never rejects: after a failed
\* revoke request the cached token is still removed and the client token is null,
\* and without a cached token the client token is set to null and no revoke
\* request is sent.
SignOutNeverRejects ==
  /\ [](resp["signOut"].kind \notin {"error", "unhandled"})
  /\ [](pc["signOut"] = "done"
          => /\ resp["signOut"] = Answer("success", "")
             /\ accessToken = NoToken
             /\ http["signOut"] = IF so.token = NoToken THEN <<>> ELSE <<Req("revoke", 0)>>)
  /\ [][/\ pc["signOut"] = "revoke" => pc'["signOut"] \in {"revoke", "remove"}
        /\ (pc["signOut"] = "remove" /\ pc'["signOut"] # "remove")
             => (pc'["signOut"] = "done" /\ accessToken' = NoToken)
        /\ (pc["signOut"] = "token" /\ pc'["signOut"] = "done")
             => (so'.token = NoToken /\ accessToken' = NoToken /\ http'["signOut"] = <<>>)]_vars

\* signOut has completed after a revoke request that failed
SignedOutAfterFailedRevoke ==
  /\ pc["signOut"] = "done"
  /\ so.token = Token
  /\ ~so.revoked
  /\ http["signOut"] = <<Req("revoke", 0)>>
  /\ accessToken = NoToken
  /\ resp["signOut"] = Answer("success", "")

\* ---------------------------------------------------------------------------
\* properties of the refresh alarm, checked under SpecSettings
\* ---------------------------------------------------------------------------
\* the period the stored settings ask for
ConfiguredInterval ==
  IF storage.refreshInterval = 0 THEN 5 ELSE storage.refreshInterval

RaisedByCycles == cyc["alarm"].raised \o cyc["refresh"].raised

\* C21: the notification id is a function of the message id alone, so raising a
\* notification for the same message again replaces the one there is: at most one
\* live notification exists per message id, distinct message ids have distinct
\* notification ids, and no message's notification is replaced by another message's.
OneNotificationPerMessage ==
  LET live == Shown(RaisedByCycles) IN
  /\ \A m \in MsgIds : Cardinality({n \in live : n.message = m}) <= 1
  /\ \A m \in Range(RaisedByCycles) : [id |-> NotificationId(m), message |-> m] \in live
  /\ \A m1, m2 \in MsgIds : m1 # m2 => NotificationId(m1) # NotificationId(m2)

\* the same message was raised twice, next to another one; each has one notification
SameMessageRaisedTwice ==
  \E m \in MsgIds :
    /\ Count(RaisedByCycles, m) = 2
    /\ Range(RaisedByCycles) # {m}
    /\ Cardinality(Shown(RaisedByCycles)) = 2

\* C27: a newly arrived unread message causes at most one notification-create call,
\* also when a cycle started by the alarm and one started by refreshEmails overlap.
OneCreateCallPerArrival ==
  \A m \in MsgIds : Count(cyc["alarm"].raised, m) + Count(cyc["refresh"].raised, m) <= 1

\* both cycles started from the same last-seen set, both have completed, and each
\* called showNotification for the same new message
BothCyclesNotified ==
  /\ pc["alarm"] = "done" /\ cyc["alarm"].outcome = "completed"
  /\ pc["refresh"] = "done" /\ cyc["refresh"].outcome = "completed"
  /\ cyc["alarm"].startSeen = cyc["refresh"].startSeen
  /\ \E m \in MsgIds : cyc["alarm"].raised = <<m>> /\ cyc["refresh"].raised = <<m>>

\* ---------------------------------------------------------------------------
\* notifications across poll cycles, checked under SpecPoll
\* ---------------------------------------------------------------------------
\* C28: over the completed poll cycles of one process lifetime, without sign-out, a
\* message that stays unread the whole time is notified in at most one cycle, also
\* when it leaves the window of fetched unread messages and comes back into it.
NotifiedInOneCycleOnly ==
  \A m \in MsgIds : notified[m] <= 1

\* a message that left the window and came back has been notified a second time
\* by the cycle that has just completed, and has been unread throughout
NotifiedAgain ==
  /\ pc["alarm"] = "done"
  /\ cyc["alarm"].outcome = "completed"
  /\ \E m \in mailbox :
       /\ notified[m] = 2
       /\ m \in Range(cyc["alarm"].raised)
       /\ m \notin cyc["alarm"].startSeen
       /\ cyc["alarm"].startSeen # {}

\* ---------------------------------------------------------------------------
\* overlapping calls of initialize(), checked under SpecInit
\* ---------------------------------------------------------------------------
\* the calls of initialize() that have gone past line 21 and read the settings
RanSetup == {p \in InitProcs : pc[p] \in {"clear", "create", "auth", "done"} /\ ini[p] # 0}

\* C29: the setup of initialize() runs at most once per process: however the three
\* calls (onInstalled, onStartup, module load) interleave at their awaits, only one
\* of them runs the alarm clear/create and the silent authentication, and when all
\* have returned one refresh alarm exists.
SetupRunsOnce ==
  /\ Cardinality(RanSetup) <= 1
  /\ (\A p \in InitProcs : pc[p] = "done") => alarm = ConfiguredInterval

\* the call at module load and the call of onInstalled have both run the setup
SetupRanTwice ==
  /\ pc["load"] = "done"
  /\ pc["installed"] = "done"
  /\ {"load", "installed"} \subseteq RanSetup
  /\ isInitialized
  /\ alarm # NoAlarm

\* the part of C29 that holds: when every call has returned, the refresh alarm
\* exists with the stored period
AlarmExistsAfterInitialize ==
  (\A p \in InitProcs : pc[p] = "done") => (isInitialized /\ alarm = ConfiguredInterval)

\* ---------------------------------------------------------------------------
\* properties of the functions of utils.js, checked under SpecUtils
\* ---------------------------------------------------------------------------
\* C22: base64Decode(base64Encode(s)) is s for every string s, the empty string and
\* strings with characters beyond ASCII included, and the encoded text has none of
\* '+', '/', '='.
Base64RoundTrip ==
  call.fn = "base64Decode"
    => /\ ~call.threw
       /\ call.value = call.origin
       /\ \A i \in 1..Len(call.arg) : call.arg[i] \notin {43, 47, 61}

\* a string that starts with U+FEFF comes back without it
ByteOrderMarkLost ==
  /\ call.fn = "base64Decode"
  /\ call.origin = <<65279, 65>>
  /\ call.value = <<65>>

\* a string of well-formed UTF-16 that does not start with U+FEFF
WellFormed(s) ==
  /\ ToScalars(s) = ToScalars(FromScalars(ToScalars(s)))
  /\ FromScalars(ToScalars(s)) = s
  /\ s # <<>> => s[1] # 65279

\* the part of C22 that holds: well-formed strings that do not start with U+FEFF
\* come back unchanged, and no encoded text has any of '+', '/', '='
Base64RoundTripOfWellFormed ==
  call.fn = "base64Decode"
    => /\ ~call.threw
       /\ WellFormed(call.origin) => call.value = call.origin
       /\ \A i \in 1..Len(call.arg) : call.arg[i] \notin {43, 47, 61}

\* the indexes of the headers whose name is one of the seven, whatever its case
MatchingAnyCase(headers, key) ==
  {i \in 1..Len(headers) :
     /\ ToLowerCase(headers[i].name) = key
     /\ \E n \in HeaderNames : ToLowerCase(n) = key}

\* C23: parseEmailHeaders returns exactly the headers whose name is one of the seven
\* allow-listed names in any spelling of case ('from', 'FROM', 'Message-Id'), each
\* under its lower-cased name with its value unchanged, and no other header.
HeadersMatchedAnyCase ==
  call.fn = "parseEmailHeaders"
    => /\ DOMAIN call.value = {ToLowerCase(call.arg[i].name) :
                                i \in {j \in 1..Len(call.arg) :
                                         MatchingAnyCase(call.arg, ToLowerCase(call.arg[j].name)) # {}}}
       /\ \A k \in DOMAIN call.value :
            \E i \in MatchingAnyCase(call.arg, k) : call.value[k] = call.arg[i].value

\* a From header spelled in lower case is not in the result
LowerCaseFromDropped ==
  /\ call.fn = "parseEmailHeaders"
  /\ call.arg = <<Header("from", <<"a@x.org">>)>>
  /\ DOMAIN call.value = {}

\* the part of C23 that holds: a header is returned when its name is spelled as in
\* the allow-list, under the lower-cased name with its value unchanged, and nothing
\* else is returned
HeadersMatchedExactly ==
  call.fn = "parseEmailHeaders"
    => /\ DOMAIN call.value = {ToLowerCase(call.arg[i].name) :
                                i \in {j \in 1..Len(call.arg) : call.arg[j].name \in HeaderNames}}
       /\ \A k \in DOMAIN call.value :
            \E i \in 1..Len(call.arg) :
              /\ call.arg[i].name \in HeaderNames
              /\ ToLowerCase(call.arg[i].name) = k
              /\ call.value[k] = call.arg[i].value

\* a part, or one of its sub-parts, has data that base64Decode throws on
RECURSIVE HasMalformedPart(_)
HasMalformedPart(part) ==
  \/ part.data # <<>> /\ Base64Decode(part.data).threw
  \/ \E i \in 1..Len(part.parts) : HasMalformedPart(part.parts[i])

\* the payload with the data of every malformed part taken out
RECURSIVE Blanked(_)
Blanked(part) ==
  Part(part.mimeType,
       IF part.data # <<>> /\ Base64Decode(part.data).threw THEN <<>> ELSE part.data,
       [i \in 1..Len(part.parts) |-> Blanked(part.parts[i])])

\* C24: a malformed base64url part body met during body extraction counts as empty
\* content and is not propagated: extractEmailBody still returns { html, plain },
\* and getMessage(id, 'full') still succeeds for a message with a malformed part.
MalformedPartIsEmpty ==
  /\ call.fn = "extractEmailBody"
       => /\ ~call.threw
          /\ call.value = ExtractEmailBody(Blanked(call.arg)).value
  /\ call.fn = "getMessage"
       => /\ ~call.threw
          /\ call.value.body = ExtractEmailBody(Blanked(call.arg)).value

\* getMessage was given a payload with one good and one malformed part, and threw
MalformedPartFailsGetMessage ==
  /\ call.fn = "getMessage"
  /\ call.arg = Part("multipart/alternative", <<>>,
                      <<Part("text/plain", <<81, 81>>, <<>>), Part("text/html", <<42>>, <<>>)>>)
  /\ call.threw

\* the part of C24 that holds: a payload without a malformed part gives a body
WellFormedPartsExtracted ==
  (call.fn \in {"extractEmailBody", "getMessage"} /\ ~HasMalformedPart(call.arg))
    => ~call.threw

\* ---------------------------------------------------------------------------
\* who asks the mail API, checked under Spec
\* ---------------------------------------------------------------------------
\* the invocations that answer a request of the popup
UserRequests == {"refresh", "client", "signOut", "saveSettings"}

\* C25: mail is accessed only on an explicit user request: every request sent to
\* the mail API belongs to a bridge request that a user action in the popup
\* triggered; the background process issues none on its own.
MailOnlyOnUserRequest ==
  \A p \in Procs :
    (\E i \in 1..Len(http[p]) : http[p][i].ep # "revoke") => p \in UserRequests

\* the alarm's cycle has listed and fetched mail while no request of the popup ran
MailFetchedOnAlarm ==
  /\ pc["alarm"] = "done"
  /\ Len(http["alarm"]) >= 2
  /\ http["alarm"][1] = Req("list", 0)
  /\ http["alarm"][2].ep = "get"
  /\ \A p \in UserRequests : resp[p] = NoAnswer /\ http[p] = <<>>

\* ---------------------------------------------------------------------------
\* signOut against a poll cycle in flight, checked under SpecSignOutRace
\* ---------------------------------------------------------------------------
\* a cycle that was in flight while signOut ran has finished: its record is kept
\* only until the next handler begins, and so is the completion of signOut
CycleFinishedDuringSignOut ==
  /\ pc["signOut"] = "done"
  /\ \A c \in Cycles : Idle(c)
  /\ \E c \in Cycles : pc[c] = "done"

\* C26: when signOut runs while a poll cycle is in flight, then once both have
\* finished the last-seen set is empty: the cycle does not write the ids it fetched
\* into the set after signOut cleared it (signOut clears it when it found a token).
SignOutOutlastsCycle ==
  (CycleFinishedDuringSignOut /\ so.token # NoToken) => lastKnownMessageIds = {}

\* signOut revoked and removed the token and cleared the set; the cycle, started
\* before, then completed and wrote the ids it had fetched
CycleWroteAfterSignOut ==
  /\ CycleFinishedDuringSignOut
  /\ so.token = Token
  /\ accessToken = NoToken
  /\ \E c \in Cycles :
       /\ pc[c] = "done"
       /\ cyc[c].outcome = "completed"
       /\ cyc[c].messages # <<>>
       /\ lastKnownMessageIds = Range(cyc[c].messages)

====
